---- MODULE Spec2Model ----
(***************************************************************************)
(* Model of the Requester class of easier-requests (src/requester.js,      *)
(* version 0.0.3/0.0.4, lines 1-337): the three tables keyed by request    *)
(* ID, the ID serial number, the option objects, and every public method.  *)
(*                                                                         *)
(* JavaScript objects are functions from their own property names to       *)
(* values; a property lookup also sees the names every object inherits     *)
(* from Object.prototype.  Values are pairs <<tag, n>>.  An async method   *)
(* runs its synchronous part as one step; the callbacks attached to the    *)
(* transport promise and the continuation after `await` are later steps.   *)
(***************************************************************************)
EXTENDS Integers, Sequences, FiniteSets, TLC

VARIABLES
  cachedResponses,   \* this._cachedResponses : own properties, id -> value
  cachedErrors,      \* this._cachedErrors    : own properties, id -> value
  inFlightRequests,  \* this._inFlightRequests: own properties, id -> promise
  idSerialNumber,    \* this._idSerialNumber
  generatedIDs,      \* the strings the calls of createUniqueID returned, in
                     \* the order of the calls
  options,           \* the object this._options refers to
  defaultOptions,    \* the object this._defaultOptions refers to
  optionsAliased,    \* TRUE when this._options === this._defaultOptions
  requests,          \* the calls of _request that reached the transport:
                     \* id, position (pc), what the transport did (outcome),
                     \* what the catch handler threw (thrown), and the
                     \* number of calls of response/error that returned
                     \* its outcome (delivered)
  result             \* what the last call of a public method gave its caller

tables == <<cachedResponses, cachedErrors, inFlightRequests>>
optionVars == <<options, defaultOptions, optionsAliased>>
generatorVars == <<idSerialNumber, generatedIDs>>
vars == <<cachedResponses, cachedErrors, inFlightRequests, idSerialNumber,
          generatedIDs, options, defaultOptions, optionsAliased, requests,
          result>>

(***************************************************************************)
(* Bounds of the model.                                                    *)
(***************************************************************************)
MaxRequests == 2     \* calls of _request that reach the transport
MaxSerial == 2       \* calls of createUniqueID
MaxClock == 1        \* Date.now() ranges over 0..MaxClock
MaxParams == 4       \* length of the flat parameter lists of SpecParams

\* Identifiers the callers use.
Ids == {"a", "b"}
\* An identifier that names a property every object literal inherits from
\* Object.prototype; callers use it under SpecInherited.
ObjectPrototypeKeys == {"toString"}
AllIds == Ids \cup ObjectPrototypeKeys

Url == "u"
\* flat parameter lists handed to the verb methods as rest arguments
ParamLists == {<< >>, <<"q">>, <<"q", "v">>}
\* the strings the lists of SpecParams are made of: names and values
ParamTokens == {"q", "v", "__proto__"}
\* every flat parameter list of at most n tokens
ListsUpTo(n) == UNION {[1..k -> ParamTokens] : k \in 0..n}
\* prefixes handed to createUniqueID, as strings of characters
Prefixes ==
  {<< >>, <<"x">>, <<"1">>, <<"#", "1">>, <<"x", "#", "1">>,
   <<"x", "#", "1", "#", "0">>}

(***************************************************************************)
(* Values.                                                                 *)
(***************************************************************************)
Undefined == <<"undefined", 0>>
InheritedFunction == <<"function", 0>>
IDInUseError == <<"IDInUseError", 0>>
RequestNotCompleteError == <<"RequestNotCompleteError", 0>>
InvalidRequestError == <<"InvalidRequestError", 0>>
UnbalancedParametersError == <<"UnbalancedParametersError", 0>>
TypeError == <<"TypeError", 0>>
\* what the transport of request r resolves with / rejects with
ResponseOf(r) == <<"response", r>>
ErrorOf(r) == <<"error", r>>
PromiseOf(r) == <<"promise", r>>

EmptyObject == [k \in {} |-> Undefined]

(***************************************************************************)
(* JavaScript object primitives.                                           *)
(***************************************************************************)
\* `id in obj`: own and inherited properties
HasProperty(obj, id) == id \in DOMAIN obj \/ id \in ObjectPrototypeKeys

\* `obj[id]`
GetProperty(obj, id) ==
  IF id \in DOMAIN obj THEN obj[id]
  ELSE IF id \in ObjectPrototypeKeys THEN InheritedFunction
  ELSE Undefined

\* `obj[id] = v`.  The name "__proto__" is an accessor every object
\* inherits from Object.prototype: assigning to it runs the inherited
\* setter, which creates no own property (and ignores a primitive v).
SetProperty(obj, id, v) ==
  IF id = "__proto__"
  THEN obj
  ELSE [k \in DOMAIN obj \cup {id} |-> IF k = id THEN v ELSE obj[k]]

\* a delete that empties the object
DeleteEverything(obj, id) == EmptyObject

\* `delete obj[id]`: removes an own property only
DeleteProperty(obj, id) == [k \in DOMAIN obj \ {id} |-> obj[k]]

\* Object.assign(target, source) / {...target, ...source}
Assign(target, source) ==
  [k \in DOMAIN target \cup DOMAIN source |->
     IF k \in DOMAIN source THEN source[k] ELSE target[k]]

\* a catch handler that uses throwOnFailure as it was when the request was
\* dispatched, for callers that dispatch only while it is true
ThrowAsAtDispatch(opts) == TRUE

\* a catch handler that rethrows whatever the options say
ThrowAlways(opts) == TRUE

\* the test `caller._options.throwOnFailure` of the catch handler
ThrowOnFailure(opts) ==
  "throwOnFailure" \in DOMAIN opts /\ opts["throwOnFailure"] = TRUE

(***************************************************************************)
(* What a public method gives its caller.  kind is "return" or "throw"     *)
(* for a synchronous method; for an async method it is "promise" (the      *)
(* call returned a promise that waits for the transport) or "rejects"      *)
(* (the call returned a promise that is rejected with val).  The five verb *)
(* methods share op "dispatch"; config is what the call handed to the      *)
(* transport, NoConfig when it did not reach it.                           *)
(***************************************************************************)
NoConfig == [method |-> "none", params |-> EmptyObject, url |-> "", data |-> Undefined]

Res(op, id, kind, val) ==
  [op |-> op, id |-> id, kind |-> kind, val |-> val,
   config |-> NoConfig, text |-> << >>, opts |-> EmptyObject]

(***************************************************************************)
(* constructor                                                             *)
(***************************************************************************)
Init ==
  /\ cachedResponses = EmptyObject
  /\ cachedErrors = EmptyObject
  /\ inFlightRequests = EmptyObject
  /\ idSerialNumber = 0
  /\ generatedIDs = << >>
  /\ defaultOptions = [k \in {"throwOnFailure"} |-> TRUE]
  /\ options = [k \in {"throwOnFailure"} |-> TRUE]
  /\ optionsAliased = FALSE
  /\ requests = << >>
  /\ result = Res("constructor", "", "return", Undefined)

(***************************************************************************)
(* createUniqueID                                                          *)
(***************************************************************************)
Digit(d) == <<"0", "1", "2", "3", "4", "5", "6", "7", "8", "9">>[d + 1]

\* the decimal numeral a template literal gives a non-negative integer
RECURSIVE NumberToString(_)
NumberToString(n) ==
  IF n < 10 THEN <<Digit(n)>>
  ELSE NumberToString(n \div 10) \o <<Digit(n % 10)>>

\* an identifier format that leaves the serial number out
FormatIDNoSerial(prefix, serial, now) ==
  prefix \o <<"#">> \o NumberToString(now)

\* `${prefix}#${this._idSerialNumber}#${Date.now()}`
FormatID(prefix, serial, now) ==
  prefix \o <<"#">> \o NumberToString(serial) \o <<"#">> \o NumberToString(now)

\* an increment that is lost
IncrementLost(n) == n

\* `this._idSerialNumber++`
Increment(n) == n + 1

\* a createUniqueID that refuses the empty prefix
createUniqueIDRequiresPrefix(prefix) ==
  IF prefix = << >>
  THEN /\ result' = Res("createUniqueID", "", "throw", TypeError)
       /\ UNCHANGED <<tables, generatorVars, optionVars, requests>>
  ELSE /\ idSerialNumber < MaxSerial
       /\ idSerialNumber' = Increment(idSerialNumber)
       /\ \E now \in 0..MaxClock :
            /\ result' = [Res("createUniqueID", "", "return", <<"string", 0>>)
                            EXCEPT !.text = FormatID(prefix, idSerialNumber', now)]
            /\ generatedIDs' =
                 Append(generatedIDs, FormatID(prefix, idSerialNumber', now))
       /\ UNCHANGED <<tables, optionVars, requests>>

createUniqueID(prefix) ==
  /\ idSerialNumber < MaxSerial
  /\ idSerialNumber' = Increment(idSerialNumber)
  /\ \E now \in 0..MaxClock :
       /\ result' = [Res("createUniqueID", "", "return", <<"string", 0>>)
                       EXCEPT !.text = FormatID(prefix, idSerialNumber', now)]
       /\ generatedIDs' =
            Append(generatedIDs, FormatID(prefix, idSerialNumber', now))
  /\ UNCHANGED <<tables, optionVars, requests>>

(***************************************************************************)
(* _wrapParams                                                             *)
(***************************************************************************)
\* the loop `for (i = 0; i < params.length; i += 2)` from index i (0-based)
RECURSIVE GatherParams(_, _, _)
GatherParams(params, i, parameters) ==
  IF i < Len(params)
  THEN GatherParams(params, i + 2,
                    SetProperty(parameters, params[i + 1], params[i + 2]))
  ELSE parameters

\* a _wrapParams that ignores a trailing name instead of throwing
wrapParamsLenient(params) ==
  [threw |-> FALSE,
   value |-> GatherParams(SubSeq(params, 1, Len(params) - (Len(params) % 2)),
                          0, EmptyObject)]

\* [threw |-> TRUE] stands for the UnbalancedParametersError thrown
wrapParams(params) ==
  IF Len(params) % 2 # 0
  THEN [threw |-> TRUE, value |-> EmptyObject]
  ELSE [threw |-> FALSE, value |-> GatherParams(params, 0, EmptyObject)]

(***************************************************************************)
(* _request and the verb methods                                           *)
(***************************************************************************)
\* IdInUse without its test of the in-flight table
IdInUseCachedOnly(id) == HasProperty(cachedResponses, id)

\* IdInUse testing the cached value instead of the presence of the key
IdInUseByValue(id) ==
  GetProperty(cachedResponses, id) # Undefined \/ HasProperty(inFlightRequests, id)

\* `id in this._cachedResponses || id in this._inFlightRequests`
IdInUse(id) ==
  HasProperty(cachedResponses, id) \/ HasProperty(inFlightRequests, id)

\* a _request that leaves the marking of id for later
MarkLater(id, promise) == inFlightRequests

\* `this._inFlightRequests[id] = axios.request(config)...`
MarkInFlight(id, promise) == SetProperty(inFlightRequests, id, promise)

NewRequest(id) ==
  [id |-> id, pc |-> "pending", outcome |-> "none", thrown |-> Undefined,
   delivered |-> 0]

\* _request that forgets the id it rejects: the rejection with IDInUse
\* drops the marker of the request that holds the id
requestRejectionClears(method, url, id, data, params) ==
  IF IdInUse(id)
  THEN /\ result' = Res("dispatch", id, "rejects", IDInUseError)
       /\ inFlightRequests' = DeleteProperty(inFlightRequests, id)
       /\ UNCHANGED <<cachedResponses, cachedErrors, generatorVars, optionVars,
                      requests>>
  ELSE /\ Len(requests) < MaxRequests
       /\ inFlightRequests' = MarkInFlight(id, PromiseOf(Len(requests) + 1))
       /\ requests' = Append(requests, NewRequest(id))
       /\ result' = [Res("dispatch", id, "promise", PromiseOf(Len(requests) + 1))
                       EXCEPT !.config = [method |-> method, params |-> params,
                                          url |-> url, data |-> data]]
       /\ UNCHANGED <<cachedResponses, cachedErrors, generatorVars, optionVars>>

\* The synchronous part of _request, up to its `await`; params is the
\* object _wrapParams returned.
request(method, url, id, data, params) ==
  IF IdInUse(id)
  THEN /\ result' = Res("dispatch", id, "rejects", IDInUseError)
       /\ UNCHANGED <<tables, generatorVars, optionVars, requests>>
  ELSE /\ Len(requests) < MaxRequests
       /\ inFlightRequests' = MarkInFlight(id, PromiseOf(Len(requests) + 1))
       /\ requests' = Append(requests, NewRequest(id))
       /\ result' = [Res("dispatch", id, "promise", PromiseOf(Len(requests) + 1))
                       EXCEPT !.config = [method |-> method, params |-> params,
                                          url |-> url, data |-> data]]
       /\ UNCHANGED <<cachedResponses, cachedErrors, generatorVars, optionVars>>

\* A verb method: its argument this._wrapParams(params) is evaluated first,
\* inside the async method, so a throw there rejects the returned promise.
Verb(method, url, id, data, params) ==
  IF wrapParams(params).threw
  THEN /\ result' = Res("dispatch", id, "rejects", UnbalancedParametersError)
       /\ UNCHANGED <<tables, generatorVars, optionVars, requests>>
  ELSE request(method, url, id, data, wrapParams(params).value)

Data == <<"data", 1>>

delete(id, params) == Verb("delete", Url, id, Undefined, params)
get(id, params) == Verb("get", Url, id, Undefined, params)
patch(id, params) == Verb("patch", Url, id, Data, params)
post(id, params) == Verb("post", Url, id, Data, params)
push(id, params) == Verb("push", Url, id, Data, params)

(***************************************************************************)
(* The callbacks of _request.  Request r is requests[r].                   *)
(***************************************************************************)
\* the then handler without its `caller._cachedErrors[id] = undefined`
ThenLeavesErrors(r) == cachedErrors

\* the failure table after the then handler
ThenErrors(r) == SetProperty(cachedErrors, requests[r].id, Undefined)

\* .then(function (response) {...}): the transport resolved
ThenHandler(r) ==
  /\ r \in 1..Len(requests)
  /\ requests[r].pc = "pending"
  /\ cachedResponses' = SetProperty(cachedResponses, requests[r].id, ResponseOf(r))
  /\ cachedErrors' = ThenErrors(r)
  /\ requests' = [requests EXCEPT ![r].pc = "settled", ![r].outcome = "success"]
  /\ UNCHANGED <<inFlightRequests, generatorVars, optionVars, result>>

\* the catch handler without its `delete caller._inFlightRequests[id]`
CatchKeepsInFlight(id) == inFlightRequests

\* the in-flight table after the catch handler
CatchInFlight(id) ==
  IF ThrowOnFailure(options)
  THEN DeleteProperty(inFlightRequests, id)
  ELSE inFlightRequests

\* a catch handler that stores the error in the success table too
CatchStoresErrorTwice(r) == ErrorOf(r)

\* `caller._cachedResponses[id] = undefined`: what the catch handler stores
\* in the success table
CatchResponse(r) == Undefined

\* .catch(function (error) {...}): the transport rejected
CatchHandler(r) ==
  /\ r \in 1..Len(requests)
  /\ requests[r].pc = "pending"
  /\ cachedResponses' =
       SetProperty(cachedResponses, requests[r].id, CatchResponse(r))
  /\ cachedErrors' = SetProperty(cachedErrors, requests[r].id, ErrorOf(r))
  /\ inFlightRequests' = CatchInFlight(requests[r].id)
  /\ requests' = [requests EXCEPT
                    ![r].pc = IF ThrowOnFailure(options) THEN "throwing" ELSE "settled",
                    ![r].outcome = "failure",
                    ![r].thrown = IF ThrowOnFailure(options) THEN ErrorOf(r) ELSE Undefined]
  /\ UNCHANGED <<generatorVars, optionVars, result>>

\* a _request whose last statement empties the in-flight table
AwaitClearsInFlight(id) == EmptyObject

\* a _request without its last statement
AwaitKeepsInFlight(id) == inFlightRequests

\* `delete this._inFlightRequests[id]`, the last statement of _request
AwaitInFlight(id) == DeleteProperty(inFlightRequests, id)

\* an await that never resumes
AwaitStuck(r) ==
  /\ r \in 1..Len(requests)
  /\ requests[r].pc = "settled"
  /\ UNCHANGED vars

\* `await this._inFlightRequests[id]` returns: the statement after it runs
\* and the promise the caller holds resolves
AwaitReturns(r) ==
  /\ r \in 1..Len(requests)
  /\ requests[r].pc = "settled"
  /\ inFlightRequests' = AwaitInFlight(requests[r].id)
  /\ requests' = [requests EXCEPT ![r].pc = "resolved"]
  /\ UNCHANGED <<cachedResponses, cachedErrors, generatorVars, optionVars, result>>

\* `await this._inFlightRequests[id]` throws the error the catch handler
\* threw: the promise the caller holds rejects with it
AwaitThrows(r) ==
  /\ r \in 1..Len(requests)
  /\ requests[r].pc = "throwing"
  /\ requests' = [requests EXCEPT ![r].pc = "rejected"]
  /\ UNCHANGED <<tables, generatorVars, optionVars, result>>

(***************************************************************************)
(* _responseErrorChecker, error, response                                  *)
(***************************************************************************)
\* _responseErrorChecker without its test for an in-flight request
responseErrorCheckerNoInFlight(id) ==
  IF ~HasProperty(cachedResponses, id) /\ ~HasProperty(inFlightRequests, id)
  THEN InvalidRequestError
  ELSE Undefined

\* the error _responseErrorChecker throws, Undefined when it returns
responseErrorChecker(id) ==
  IF HasProperty(inFlightRequests, id)
  THEN RequestNotCompleteError
  ELSE IF ~HasProperty(cachedResponses, id) /\ ~HasProperty(inFlightRequests, id)
  THEN InvalidRequestError
  ELSE Undefined

\* bookkeeping, not program state: a call of response or error returned v
Delivered(v) ==
  IF v[1] \in {"response", "error"}
  THEN [requests EXCEPT ![v[2]].delivered = @ + 1]
  ELSE requests

\* error and response with one of their two deletes left out
KeepErrors(id) == cachedErrors
KeepResponses(id) == cachedResponses

\* the two deletes that end error
ErrorDeletesErrors(id) == DeleteProperty(cachedErrors, id)
ErrorDeletesResponses(id) == DeleteProperty(cachedResponses, id)
\* the two deletes that end response
ResponseDeletesErrors(id) == DeleteProperty(cachedErrors, id)
ResponseDeletesResponses(id) == DeleteProperty(cachedResponses, id)

error(id) ==
  IF responseErrorChecker(id) # Undefined
  THEN /\ result' = Res("error", id, "throw", responseErrorChecker(id))
       /\ UNCHANGED <<tables, generatorVars, optionVars, requests>>
  ELSE IF GetProperty(cachedErrors, id) = Undefined
  THEN /\ result' = Res("error", id, "return", Undefined)
       /\ UNCHANGED <<tables, generatorVars, optionVars, requests>>
  ELSE /\ result' = Res("error", id, "return", GetProperty(cachedErrors, id))
       /\ cachedErrors' = ErrorDeletesErrors(id)
       /\ cachedResponses' = ErrorDeletesResponses(id)
       /\ requests' = Delivered(GetProperty(cachedErrors, id))
       /\ UNCHANGED <<inFlightRequests, generatorVars, optionVars>>

\* response without its two deletes: it returns the payload and keeps the
\* entry
responsePeeks(id) ==
  IF responseErrorChecker(id) # Undefined
  THEN /\ result' = Res("response", id, "throw", responseErrorChecker(id))
       /\ UNCHANGED <<tables, generatorVars, optionVars, requests>>
  ELSE /\ result' = Res("response", id, "return", GetProperty(cachedResponses, id))
       /\ requests' = Delivered(GetProperty(cachedResponses, id))
       /\ UNCHANGED <<tables, generatorVars, optionVars>>

response(id) ==
  IF responseErrorChecker(id) # Undefined
  THEN /\ result' = Res("response", id, "throw", responseErrorChecker(id))
       /\ UNCHANGED <<tables, generatorVars, optionVars, requests>>
  ELSE IF GetProperty(cachedResponses, id) = Undefined
  THEN /\ result' = Res("response", id, "return", Undefined)
       /\ UNCHANGED <<tables, generatorVars, optionVars, requests>>
  ELSE /\ result' = Res("response", id, "return", GetProperty(cachedResponses, id))
       /\ cachedErrors' = ResponseDeletesErrors(id)
       /\ cachedResponses' = ResponseDeletesResponses(id)
       /\ requests' = Delivered(GetProperty(cachedResponses, id))
       /\ UNCHANGED <<inFlightRequests, generatorVars, optionVars>>

(***************************************************************************)
(* setOptions                                                              *)
(***************************************************************************)
\* the arguments callers pass: null, {} and objects that set throwOnFailure
NullArg == [isNull |-> TRUE, obj |-> EmptyObject]
ObjectArg(o) == [isNull |-> FALSE, obj |-> o]
OptionArgs ==
  {NullArg, ObjectArg(EmptyObject)}
    \cup {ObjectArg([k \in {"throwOnFailure"} |-> b]) : b \in BOOLEAN}

setOptions(arg) ==
  IF arg.isNull
  THEN \* Object.keys(null) throws a TypeError
       /\ result' = Res("setOptions", "", "throw", TypeError)
       /\ UNCHANGED <<tables, generatorVars, optionVars, requests>>
  ELSE /\ IF DOMAIN arg.obj = {}
          THEN \* this._options = this._defaultOptions
               /\ options' = defaultOptions
               /\ optionsAliased' = TRUE
               /\ UNCHANGED defaultOptions
          ELSE \* Object.assign(this._options, options)
               /\ options' = Assign(options, arg.obj)
               /\ defaultOptions' =
                    IF optionsAliased THEN Assign(options, arg.obj) ELSE defaultOptions
               /\ UNCHANGED optionsAliased
       /\ result' = [Res("setOptions", "", "return", <<"object", 0>>)
                       EXCEPT !.opts = options']
       /\ UNCHANGED <<tables, generatorVars, requests>>

(***************************************************************************)
(* The specification: callers call the public methods in any order, and    *)
(* the callbacks of the requests run in any order between the calls.       *)
(***************************************************************************)
Next ==
  \/ \E id \in Ids, params \in ParamLists : delete(id, params)
  \/ \E id \in Ids, params \in ParamLists : get(id, params)
  \/ \E id \in Ids, params \in ParamLists : patch(id, params)
  \/ \E id \in Ids, params \in ParamLists : post(id, params)
  \/ \E id \in Ids, params \in ParamLists : push(id, params)
  \/ \E r \in 1..MaxRequests : ThenHandler(r)
  \/ \E r \in 1..MaxRequests : CatchHandler(r)
  \/ \E r \in 1..MaxRequests : AwaitReturns(r)
  \/ \E r \in 1..MaxRequests : AwaitThrows(r)
  \/ \E id \in Ids : error(id)
  \/ \E id \in Ids : response(id)
  \/ \E arg \in OptionArgs : setOptions(arg)

Spec == Init /\ [][Next]_vars

\* The same program, whose callers also use an identifier that names an
\* inherited property.
NextInherited ==
  \/ Next
  \/ \E id \in ObjectPrototypeKeys, params \in ParamLists : delete(id, params)
  \/ \E id \in ObjectPrototypeKeys, params \in ParamLists : get(id, params)
  \/ \E id \in ObjectPrototypeKeys, params \in ParamLists : patch(id, params)
  \/ \E id \in ObjectPrototypeKeys, params \in ParamLists : post(id, params)
  \/ \E id \in ObjectPrototypeKeys, params \in ParamLists : push(id, params)
  \/ \E id \in ObjectPrototypeKeys : error(id)
  \/ \E id \in ObjectPrototypeKeys : response(id)

SpecInherited == Init /\ [][NextInherited]_vars

\* The same program under fair scheduling of the callbacks: the job queue
\* runs the continuation of an `await` whose promise has settled.  Nothing
\* obliges a transport to settle or a caller to call.
SpecFair ==
  /\ Init
  /\ [][Next]_vars
  /\ \A r \in 1..MaxRequests :
       WF_vars(AwaitReturns(r)) /\ WF_vars(AwaitThrows(r))

\* Callers that only generate identifiers, with any of the prefixes.
NextGenerator == \E prefix \in Prefixes : createUniqueID(prefix)

SpecGenerator == Init /\ [][NextGenerator]_vars

\* Every public method, createUniqueID included: callers that generate
\* identifiers with the default prefix '' and use one identifier for their
\* requests.
OneId == {"a"}

NextAll ==
  \/ createUniqueID(<< >>)
  \/ \E id \in OneId, params \in ParamLists : delete(id, params)
  \/ \E id \in OneId, params \in ParamLists : get(id, params)
  \/ \E id \in OneId, params \in ParamLists : patch(id, params)
  \/ \E id \in OneId, params \in ParamLists : post(id, params)
  \/ \E id \in OneId, params \in ParamLists : push(id, params)
  \/ \E r \in 1..MaxRequests : ThenHandler(r)
  \/ \E r \in 1..MaxRequests : CatchHandler(r)
  \/ \E r \in 1..MaxRequests : AwaitReturns(r)
  \/ \E r \in 1..MaxRequests : AwaitThrows(r)
  \/ \E id \in OneId : error(id)
  \/ \E id \in OneId : response(id)
  \/ \E arg \in OptionArgs : setOptions(arg)

SpecAll == Init /\ [][NextAll]_vars

\* Callers that use two identifiers and generate identifiers as well; they
\* dispatch with get and no parameters and switch throwOnFailure off.
NextTwoIds ==
  \/ createUniqueID(<< >>)
  \/ \E id \in Ids : get(id, << >>)
  \/ \E r \in 1..MaxRequests : ThenHandler(r)
  \/ \E r \in 1..MaxRequests : CatchHandler(r)
  \/ \E r \in 1..MaxRequests : AwaitReturns(r)
  \/ \E r \in 1..MaxRequests : AwaitThrows(r)
  \/ \E id \in Ids : error(id)
  \/ \E id \in Ids : response(id)
  \/ setOptions(ObjectArg([k \in {"throwOnFailure"} |-> FALSE]))

SpecTwoIds == Init /\ [][NextTwoIds]_vars

\* Callers that dispatch only while throwOnFailure is true, and call
\* setOptions at any time: every request is dispatched under
\* throwOnFailure true, whatever the option is when its transport settles.
NextDispatchWhenTrue ==
  \/ \E id \in Ids, params \in ParamLists :
       options["throwOnFailure"] = TRUE /\ delete(id, params)
  \/ \E id \in Ids, params \in ParamLists :
       options["throwOnFailure"] = TRUE /\ get(id, params)
  \/ \E id \in Ids, params \in ParamLists :
       options["throwOnFailure"] = TRUE /\ patch(id, params)
  \/ \E id \in Ids, params \in ParamLists :
       options["throwOnFailure"] = TRUE /\ post(id, params)
  \/ \E id \in Ids, params \in ParamLists :
       options["throwOnFailure"] = TRUE /\ push(id, params)
  \/ \E r \in 1..MaxRequests : ThenHandler(r)
  \/ \E r \in 1..MaxRequests : CatchHandler(r)
  \/ \E r \in 1..MaxRequests : AwaitReturns(r)
  \/ \E r \in 1..MaxRequests : AwaitThrows(r)
  \/ \E id \in Ids : error(id)
  \/ \E id \in Ids : response(id)
  \/ \E arg \in OptionArgs : setOptions(arg)

SpecDispatchWhenTrue == Init /\ [][NextDispatchWhenTrue]_vars

\* Callers that dispatch get requests under one identifier with every
\* parameter list of at most MaxParams tokens, and retrieve the responses.
NextParams ==
  \/ \E id \in OneId, params \in ListsUpTo(MaxParams) : get(id, params)
  \/ \E r \in 1..MaxRequests : ThenHandler(r)
  \/ \E r \in 1..MaxRequests : AwaitReturns(r)
  \/ \E id \in OneId : response(id)

SpecParams == Init /\ [][NextParams]_vars

(***************************************************************************)
(* Vocabulary of the properties.                                           *)
(***************************************************************************)
RequestIds == 1..Len(requests)

\* a call of one of the five verb methods (each gives its caller a result
\* of op "dispatch" for its id, which is tested first)
Dispatch(id, params) ==
  /\ result'.op = "dispatch"
  /\ result'.id = id
  /\ \/ delete(id, params)
     \/ get(id, params)
     \/ patch(id, params)
     \/ post(id, params)
     \/ push(id, params)

Balanced(params) == Len(params) % 2 = 0

\* request r was accepted under id and its transport has not settled
Pending(r, id) == requests[r].id = id /\ requests[r].pc = "pending"

\* the transport of request r under id has settled and no call of response
\* or error has returned its outcome
Unconsumed(r, id) ==
  /\ requests[r].id = id
  /\ requests[r].outcome # "none"
  /\ requests[r].delivered = 0

\* id is an own property of none of the three tables
Absent(id) ==
  /\ id \notin DOMAIN inFlightRequests
  /\ id \notin DOMAIN cachedResponses
  /\ id \notin DOMAIN cachedErrors

(***************************************************************************)
(* C1.  While a dispatch accepted under id waits for its transport, every  *)
(* further dispatch under id fails with IDInUse.                           *)
(* As stated the property fails: a further dispatch whose parameter list   *)
(* has odd length fails with UnbalancedParameters, because the verb        *)
(* methods evaluate _wrapParams before _request tests the id.              *)
(***************************************************************************)
C1_SecondDispatchIDInUse ==
  [][\A id \in AllIds, params \in ParamLists :
       ((\E r \in RequestIds : Pending(r, id)) /\ Dispatch(id, params))
         => result' = Res("dispatch", id, "rejects", IDInUseError)]_vars

\* C1 as amended: a further dispatch under id fails with IDInUse when its
\* parameter list is balanced and with UnbalancedParameters when it is not;
\* in both cases no request reaches the transport.
C1_SecondDispatchRejected ==
  [][\A id \in AllIds, params \in ParamLists :
       ((\E r \in RequestIds : Pending(r, id)) /\ Dispatch(id, params))
         => /\ result' = Res("dispatch", id, "rejects",
                             IF Balanced(params) THEN IDInUseError
                             ELSE UnbalancedParametersError)
            /\ requests' = requests]_vars

C1_Witness ==
  \E id \in AllIds :
    /\ \E r \in RequestIds : Pending(r, id)
    /\ result = Res("dispatch", id, "rejects", IDInUseError)

(***************************************************************************)
(* C2.  While the outcome of a completed request under id (success or      *)
(* failure) has not been consumed by a retrieval call, a new dispatch      *)
(* under id fails with IDInUse.                                            *)
(* As stated the property fails for the same reason as C1: a dispatch with *)
(* an odd-length parameter list fails with UnbalancedParameters.           *)
(***************************************************************************)
C2_UnconsumedIDInUse ==
  [][\A id \in AllIds, params \in ParamLists :
       ((\E r \in RequestIds : Unconsumed(r, id)) /\ Dispatch(id, params))
         => result' = Res("dispatch", id, "rejects", IDInUseError)]_vars

\* C2 as amended: the new dispatch fails with IDInUse when its parameter
\* list is balanced and with UnbalancedParameters when it is not, and the
\* unconsumed entry stays as it was.
C2_UnconsumedRejected ==
  [][\A id \in AllIds, params \in ParamLists :
       ((\E r \in RequestIds : Unconsumed(r, id)) /\ Dispatch(id, params))
         => /\ result' = Res("dispatch", id, "rejects",
                             IF Balanced(params) THEN IDInUseError
                             ELSE UnbalancedParametersError)
            /\ UNCHANGED <<tables, requests>>]_vars

\* a dispatch was refused under an id that holds the unconsumed failure of
\* a request whose call has returned
C2_Witness ==
  \E id \in AllIds :
    /\ \E r \in RequestIds :
         /\ Unconsumed(r, id)
         /\ requests[r].outcome = "failure"
         /\ requests[r].pc = "resolved"
    /\ result = Res("dispatch", id, "rejects", IDInUseError)

(***************************************************************************)
(* C3.  Exactly-once delivery: the outcome of an accepted dispatch is      *)
(* returned by at most one call of response or error, and the call of      *)
(* response(id) or error(id) that follows the call that returned the       *)
(* payload (response) or the failure (error) fails with InvalidRequest.    *)
(***************************************************************************)
\* the last call returned the outcome of a request under id
JustConsumed(id) ==
  /\ result.id = id
  /\ result.kind = "return"
  /\ \/ result.op = "response" /\ result.val[1] = "response"
     \/ result.op = "error" /\ result.val[1] = "error"

C3_ExactlyOnce ==
  /\ [](\A r \in RequestIds : requests[r].delivered <= 1)
  /\ [][\A id \in AllIds :
          /\ (JustConsumed(id) /\ response(id))
               => result' = Res("response", id, "throw", InvalidRequestError)
          /\ (JustConsumed(id) /\ error(id))
               => result' = Res("error", id, "throw", InvalidRequestError)]_vars

\* the second retrieval of a delivered outcome has failed
C3_Witness ==
  \E id \in AllIds :
    /\ \E r \in RequestIds : requests[r].id = id /\ requests[r].delivered = 1
    /\ Absent(id)
    /\ result = Res("response", id, "throw", InvalidRequestError)

(***************************************************************************)
(* C4.  For an id in the in-flight table, response(id) and error(id) fail  *)
(* with RequestNotComplete and change none of the three tables.            *)
(***************************************************************************)
C4_InFlightNotComplete ==
  [][\A id \in AllIds :
       /\ (id \in DOMAIN inFlightRequests /\ response(id))
            => /\ result' = Res("response", id, "throw", RequestNotCompleteError)
               /\ UNCHANGED tables
       /\ (id \in DOMAIN inFlightRequests /\ error(id))
            => /\ result' = Res("error", id, "throw", RequestNotCompleteError)
               /\ UNCHANGED tables]_vars

C4_Witness ==
  \E id \in AllIds :
    /\ \E r \in RequestIds : Pending(r, id)
    /\ id \in DOMAIN inFlightRequests
    /\ result = Res("error", id, "throw", RequestNotCompleteError)

(***************************************************************************)
(* C5.  For an id that was never dispatched, or whose completed entry has  *)
(* been consumed, response(id) and error(id) fail with InvalidRequest and  *)
(* change none of the tables.                                              *)
(* Violated under SpecInherited: for an id that names an inherited         *)
(* property, `id in this._inFlightRequests` is true, and both calls fail   *)
(* with RequestNotComplete.                                                *)
(***************************************************************************)
\* every request dispatched under id has had its outcome consumed
NoRecord(id) ==
  \A r \in RequestIds : requests[r].id = id => requests[r].delivered >= 1

C5_AbsentInvalidRequest ==
  [][\A id \in AllIds :
       /\ (NoRecord(id) /\ response(id))
            => /\ result' = Res("response", id, "throw", InvalidRequestError)
               /\ UNCHANGED tables
       /\ (NoRecord(id) /\ error(id))
            => /\ result' = Res("error", id, "throw", InvalidRequestError)
               /\ UNCHANGED tables]_vars

(***************************************************************************)
(* C6.  Cross-consumption after failure: when the dispatch under id has    *)
(* returned normally after its transport failed (throwOnFailure was false) *)
(* and the failure is not yet consumed, response(id) returns the empty     *)
(* result and leaves the entry in both tables, so that the same holds for  *)
(* the call that follows; error(id) returns the failure value and removes  *)
(* id from both tables in that one call.                                   *)
(***************************************************************************)
\* the call that dispatched r under id has returned, with the given outcome
\* stored and not yet consumed
Completed(r, id, outcome) ==
  /\ requests[r].id = id
  /\ requests[r].pc = "resolved"
  /\ requests[r].outcome = outcome
  /\ requests[r].delivered = 0

C6_CrossConsumptionAfterFailure ==
  [][\A id \in AllIds : \A r \in RequestIds :
       /\ (Completed(r, id, "failure") /\ response(id))
            => /\ result' = Res("response", id, "return", Undefined)
               /\ UNCHANGED tables
               /\ id \in DOMAIN cachedResponses /\ id \in DOMAIN cachedErrors
               /\ Completed(r, id, "failure")'
       /\ (Completed(r, id, "failure") /\ error(id))
            => /\ result' = Res("error", id, "return", ErrorOf(r))
               /\ id \notin DOMAIN cachedResponses'
               /\ id \notin DOMAIN cachedErrors']_vars

\* response(id) has returned the empty result for a failed request and the
\* failure is still stored
C6_Witness ==
  \E id \in AllIds : \E r \in RequestIds :
    /\ Completed(r, id, "failure")
    /\ cachedErrors[id] = ErrorOf(r)
    /\ result = Res("response", id, "return", Undefined)

(***************************************************************************)
(* C7.  Cross-consumption after success: when the dispatch under id has    *)
(* returned after its transport succeeded and the payload is not yet       *)
(* consumed, error(id) returns the empty result and deletes nothing, any   *)
(* number of times; response(id) returns the stored payload and removes id *)
(* from both tables.                                                       *)
(***************************************************************************)
C7_CrossConsumptionAfterSuccess ==
  [][\A id \in AllIds : \A r \in RequestIds :
       /\ (Completed(r, id, "success") /\ error(id))
            => /\ result' = Res("error", id, "return", Undefined)
               /\ UNCHANGED tables
               /\ id \in DOMAIN cachedResponses /\ id \in DOMAIN cachedErrors
               /\ Completed(r, id, "success")'
       /\ (Completed(r, id, "success") /\ response(id))
            => /\ result' = Res("response", id, "return", ResponseOf(r))
               /\ id \notin DOMAIN cachedResponses'
               /\ id \notin DOMAIN cachedErrors']_vars

\* error(id) has returned the empty result for a successful request and
\* the payload is still stored
C7_Witness ==
  \E id \in AllIds : \E r \in RequestIds :
    /\ Completed(r, id, "success")
    /\ cachedResponses[id] = ResponseOf(r)
    /\ result = Res("error", id, "return", Undefined)

(***************************************************************************)
(* C8.  For every completed identifier the first retrieval call made for   *)
(* it, response(id) or error(id), deletes the entry from both the success  *)
(* and the failure store, so that the second retrieval call fails with     *)
(* InvalidRequest.                                                         *)
(* Were that so, every retrieval that finds a completed, unconsumed entry  *)
(* would be the first one for it; C8_FirstRetrievalDeletes says that each  *)
(* such call deletes the entry.  It fails: the accessor that does not      *)
(* match the outcome returns undefined and deletes nothing.                *)
(***************************************************************************)
\* the tables hold the unconsumed outcome of request r under id, and id is
\* not in flight
Entry(r, id) == Unconsumed(r, id) /\ id \notin DOMAIN inFlightRequests

C8_FirstRetrievalDeletes ==
  [][\A id \in AllIds : \A r \in RequestIds :
       (Entry(r, id) /\ (response(id) \/ error(id)))
         => id \notin DOMAIN cachedResponses' /\ id \notin DOMAIN cachedErrors']_vars

\* C8 as amended: the first call of the accessor that matches the outcome
\* (response after success, error after failure) deletes the entry from
\* both stores, and the retrieval that follows it fails with
\* InvalidRequest; a call of the other accessor returns the empty result
\* and deletes nothing.
C8_MatchingRetrievalDeletes ==
  [][\A id \in AllIds :
       /\ \A r \in RequestIds :
            /\ (Entry(r, id) /\ requests[r].outcome = "success" /\ response(id))
                 => Absent(id)' /\ requests'[r].delivered = 1
            /\ (Entry(r, id) /\ requests[r].outcome = "failure" /\ error(id))
                 => Absent(id)' /\ requests'[r].delivered = 1
            /\ (Entry(r, id) /\ requests[r].outcome = "success" /\ error(id))
                 => result'.val = Undefined /\ UNCHANGED <<tables, requests>>
            /\ (Entry(r, id) /\ requests[r].outcome = "failure" /\ response(id))
                 => result'.val = Undefined /\ UNCHANGED <<tables, requests>>
       /\ (JustConsumed(id) /\ (response(id) \/ error(id)))
            => /\ result'.kind = "throw"
               /\ result'.val = InvalidRequestError]_vars

\* error(id) has consumed the failure of a request whose dispatch threw
C8_Witness ==
  \E id \in AllIds : \E r \in RequestIds :
    /\ requests[r].id = id
    /\ requests[r].pc = "rejected"
    /\ requests[r].delivered = 1
    /\ Absent(id)
    /\ result = Res("error", id, "return", ErrorOf(r))

(***************************************************************************)
(* C9.  In every reachable state no identifier is both in the in-flight    *)
(* table and in the success or failure table.                              *)
(* Violated: when the transport resolves, or rejects with throwOnFailure   *)
(* false, the handler stores the outcome and the in-flight marker is       *)
(* deleted only when the awaiting _request resumes.                        *)
(***************************************************************************)
C9_InFlightExcludesCompleted ==
  \A id \in AllIds :
    ~ /\ id \in DOMAIN inFlightRequests
      /\ id \in DOMAIN cachedResponses \/ id \in DOMAIN cachedErrors

(***************************************************************************)
(* C10.  When the transport of request r under id fails while              *)
(* throwOnFailure is true, the dispatch call fails with the transport's    *)
(* failure value and the failure is recorded: the handler leaves id out of *)
(* the in-flight table with the failure stored; when the caller observes   *)
(* the failure (and as long as nobody has consumed it) id is not in        *)
(* flight and the failure is stored; error(id) then returns that value and *)
(* removes the entry, and the error(id) that follows fails with            *)
(* InvalidRequest.                                                         *)
(***************************************************************************)
\* the dispatch of r under id threw the failure, which is not yet consumed
ThrownUnconsumed(r, id) ==
  /\ requests[r].id = id
  /\ requests[r].pc \in {"throwing", "rejected"}
  /\ requests[r].delivered = 0

C10_ThrownFailureRecorded ==
  /\ [][\A r \in RequestIds :
          (CatchHandler(r) /\ ThrowOnFailure(options))
            => /\ requests'[r].pc = "throwing"
               /\ requests'[r].thrown = ErrorOf(r)]_vars
  /\ [](\A id \in AllIds : \A r \in RequestIds :
          ThrownUnconsumed(r, id)
            => /\ requests[r].thrown = ErrorOf(r)
               /\ id \notin DOMAIN inFlightRequests
               /\ id \in DOMAIN cachedErrors /\ cachedErrors[id] = requests[r].thrown
               /\ id \in DOMAIN cachedResponses /\ cachedResponses[id] = Undefined)
  /\ [][\A id \in AllIds : \A r \in RequestIds :
          /\ (ThrownUnconsumed(r, id) /\ error(id))
               => /\ result' = Res("error", id, "return", requests[r].thrown)
                  /\ requests'[r].delivered = 1
                  /\ Absent(id)'
          /\ (result = Res("error", id, "return", ErrorOf(r)) /\ error(id))
               => result' = Res("error", id, "throw", InvalidRequestError)]_vars

\* the caller has observed the failure, error(id) has returned it once and
\* the second error(id) has failed
C10_Witness ==
  \E id \in AllIds : \E r \in RequestIds :
    /\ requests[r].id = id
    /\ requests[r].pc = "rejected"
    /\ requests[r].thrown = ErrorOf(r)
    /\ requests[r].delivered = 1
    /\ result = Res("error", id, "throw", InvalidRequestError)

(***************************************************************************)
(* C11.  When the transport of request r under id fails while              *)
(* throwOnFailure is false, the dispatch call completes normally: the      *)
(* catch handler throws nothing and stores the failure value, the awaiting *)
(* _request then returns (it never rejects), and once it has returned      *)
(* error(id) returns the failure value.                                    *)
(***************************************************************************)
\* the transport of r under id failed and the catch handler threw nothing
SwallowedFailure(r, id) ==
  /\ requests[r].id = id
  /\ requests[r].outcome = "failure"
  /\ requests[r].thrown = Undefined

C11_FailureStoredNotThrown ==
  /\ [][\A r \in RequestIds :
          (CatchHandler(r) /\ options["throwOnFailure"] = FALSE)
            => /\ requests'[r].pc = "settled"
               /\ requests'[r].thrown = Undefined
               /\ cachedErrors'[requests[r].id] = ErrorOf(r)]_vars
  /\ [](\A id \in AllIds : \A r \in RequestIds :
          SwallowedFailure(r, id)
            => /\ requests[r].pc \in {"settled", "resolved"}
               /\ requests[r].delivered = 0
                    => id \in DOMAIN cachedErrors /\ cachedErrors[id] = ErrorOf(r))
  /\ [][\A id \in AllIds : \A r \in RequestIds :
          /\ (SwallowedFailure(r, id) /\ requests[r].pc = "settled")
               => requests'[r].pc \in {"settled", "resolved"}
          /\ (SwallowedFailure(r, id) /\ requests[r].pc = "resolved"
                /\ requests[r].delivered = 0 /\ error(id))
               => result' = Res("error", id, "return", ErrorOf(r))]_vars

\* the dispatch has completed normally after a failed transport and
\* error(id) has returned the failure value
C11_Witness ==
  \E id \in AllIds : \E r \in RequestIds :
    /\ SwallowedFailure(r, id)
    /\ requests[r].pc = "resolved"
    /\ requests[r].delivered = 1
    /\ result = Res("error", id, "return", ErrorOf(r))

(***************************************************************************)
(* C12.  Option reset: when throwOnFailure is false (some earlier call     *)
(* setOptions({throwOnFailure: false}) has made it so), setOptions({})     *)
(* leaves throwOnFailure true, the documented default, and returns an      *)
(* option set whose throwOnFailure is true.                                *)
(* Violated: setOptions({}) makes this._options the default object itself, *)
(* so the next setOptions({throwOnFailure: false}) writes false into the   *)
(* defaults and the setOptions({}) after it resets to false.               *)
(***************************************************************************)
C12_ResetRestoresDefault ==
  [][(options["throwOnFailure"] = FALSE /\ setOptions(ObjectArg(EmptyObject)))
       => /\ options'["throwOnFailure"] = TRUE
          /\ result'.opts["throwOnFailure"] = TRUE]_vars

(***************************************************************************)
(* C13.  setOptions called with null changes neither the option objects    *)
(* nor a table, does not fail, and returns a copy of the current options.  *)
(* Violated: Object.keys(null) throws a TypeError before anything else.    *)
(***************************************************************************)
C13_NullReturnsCopy ==
  [][setOptions(NullArg)
       => /\ result'.kind = "return"
          /\ result'.opts = options
          /\ UNCHANGED <<tables, optionVars>>]_vars

(***************************************************************************)
(* C14.  Every call of setOptions returns a snapshot: an option set equal  *)
(* to the options right after the call.                                    *)
(* Violated by the call with null, which throws and returns nothing; the   *)
(* calls with an object return a fresh copy equal to the options.          *)
(***************************************************************************)
C14_ReturnsSnapshot ==
  [][\A arg \in OptionArgs :
       setOptions(arg) => result'.kind = "return" /\ result'.opts = options']_vars

(***************************************************************************)
(* C15.  Generator uniqueness: any two calls of createUniqueID return      *)
(* different strings, whatever their prefixes (equal, different, or        *)
(* containing '#') and also when the clock gives both the same value.      *)
(***************************************************************************)
C15_GeneratedIDsDiffer ==
  \A i, j \in 1..Len(generatedIDs) :
    i # j => generatedIDs[i] # generatedIDs[j]

\* two calls with the same prefix, which contains '#', at the same clock value
C15_Witness ==
  \E now \in 0..MaxClock :
    generatedIDs = <<FormatID(<<"x", "#", "1">>, 1, now),
                     FormatID(<<"x", "#", "1">>, 2, now)>>

(***************************************************************************)
(* C16.  The ID serial number never decreases and is never reset: every    *)
(* call of createUniqueID increases it by exactly one, and no other step   *)
(* (dispatch, settlement, response, error, setOptions, the reset           *)
(* setOptions({}) included) changes it.                                    *)
(***************************************************************************)
C16_SerialOnlyIncrements ==
  [][/\ idSerialNumber' >= idSerialNumber
     /\ \A prefix \in Prefixes :
          createUniqueID(prefix) => idSerialNumber' = idSerialNumber + 1
     /\ (\A prefix \in Prefixes : ~createUniqueID(prefix))
          => idSerialNumber' = idSerialNumber]_vars

\* after two identifiers were generated the options were reset and a
\* request completed and was retrieved: the serial number is still 2
C16_Witness ==
  /\ idSerialNumber = 2
  /\ optionsAliased
  /\ result.op = "response"
  /\ result.kind = "return"
  /\ result.val # Undefined

(***************************************************************************)
(* C17.  createUniqueID never fails and changes nothing but the serial     *)
(* number: the tables, the options and the requests are as before, so the  *)
(* generated identifier is reserved nowhere.                               *)
(***************************************************************************)
C17_GeneratorChangesOnlySerial ==
  /\ [][\A prefix \in Prefixes :
          createUniqueID(prefix)
            => /\ result'.kind = "return"
               /\ result'.text = generatedIDs'[Len(generatedIDs')]
               /\ UNCHANGED <<tables, optionVars, requests>>]_vars
  /\ [](idSerialNumber < MaxSerial
          => \A prefix \in Prefixes : ENABLED createUniqueID(prefix))

\* an identifier was generated while a request was in flight and an
\* outcome was stored
C17_Witness ==
  /\ result.op = "createUniqueID"
  /\ result.kind = "return"
  /\ inFlightRequests # EmptyObject
  /\ cachedResponses # EmptyObject

(***************************************************************************)
(* C18.  A dispatch whose flat parameter list has odd length fails with    *)
(* UnbalancedParameters before any request is dispatched: nothing is       *)
(* handed to the transport, the three tables are unchanged (id is not put  *)
(* in the in-flight table), and an id that was free is still free.         *)
(***************************************************************************)
C18_UnbalancedDispatchesNothing ==
  [][\A id \in AllIds, params \in ParamLists :
       (~Balanced(params) /\ Dispatch(id, params))
         => /\ result' = Res("dispatch", id, "rejects", UnbalancedParametersError)
            /\ result'.config = NoConfig
            /\ UNCHANGED <<tables, requests>>
            /\ Absent(id) => Absent(id)'
            /\ IdInUse(id)' = IdInUse(id)]_vars

\* an unbalanced dispatch under a free id was rejected while the other id
\* had a request in flight
C18_Witness ==
  \E id \in AllIds :
    /\ result = Res("dispatch", id, "rejects", UnbalancedParametersError)
    /\ Absent(id)
    /\ inFlightRequests # EmptyObject

(***************************************************************************)
(* C19.  For every even-length flat parameter list [n1, v1, n2, v2, ...]   *)
(* the mapping handed to the transport sends each name of the list to the  *)
(* value paired with its last occurrence and has no other names; the empty *)
(* list gives the empty mapping.                                           *)
(* Violated by a list with the name "__proto__": the assignment            *)
(* parameters["__proto__"] = value creates no property, so the name is     *)
(* missing from the mapping.                                               *)
(***************************************************************************)
\* the positions of the names of a flat list
NamePositions(params) == {2 * k - 1 : k \in 1..(Len(params) \div 2)}

\* the position of the last occurrence of name n
LastPosition(params, n) ==
  CHOOSE i \in NamePositions(params) :
    /\ params[i] = n
    /\ \A j \in NamePositions(params) : params[j] = n => j <= i

LastOccurrenceMapping(params) ==
  [n \in {params[i] : i \in NamePositions(params)} |->
     params[LastPosition(params, n) + 1]]

C19_LastOccurrenceWins ==
  [][\A id \in OneId, params \in ListsUpTo(MaxParams) :
       (Balanced(params) /\ get(id, params) /\ result'.kind = "promise")
         => result'.config.params = LastOccurrenceMapping(params)]_vars

(***************************************************************************)
(* C20.  Requests under distinct identifiers are in flight at once: a      *)
(* dispatch under a free identifier is accepted whatever else is in flight *)
(* and touches no other identifier's entries; in whatever order the        *)
(* transports settle, an identifier holds the outcome of its own request   *)
(* until it is retrieved, and a retrieval returns an outcome of a request  *)
(* dispatched under the identifier asked for; a settlement step or a       *)
(* retrieval for one identifier leaves the entries of every other          *)
(* identifier in the three tables unchanged.                               *)
(***************************************************************************)
\* the entry of id in table t
OwnEntry(t, id) ==
  IF id \in DOMAIN t THEN <<"own", t[id]>> ELSE <<"none", Undefined>>

EntriesOf(id) ==
  <<OwnEntry(cachedResponses, id), OwnEntry(cachedErrors, id),
    OwnEntry(inFlightRequests, id)>>

OthersUnchanged(id) ==
  \A other \in AllIds \ {id} : EntriesOf(other)' = EntriesOf(other)

C20_IdentifiersIndependent ==
  /\ [][\A id \in Ids, params \in ParamLists :
          (Balanced(params) /\ Absent(id) /\ Dispatch(id, params))
            => /\ result'.kind = "promise"
               /\ id \in DOMAIN inFlightRequests'
               /\ OthersUnchanged(id)]_vars
  /\ [](\A id \in AllIds : \A r \in RequestIds :
          Unconsumed(r, id)
            => /\ id \in DOMAIN cachedResponses /\ id \in DOMAIN cachedErrors
               /\ requests[r].outcome = "success"
                    => /\ cachedResponses[id] = ResponseOf(r)
                       /\ cachedErrors[id] = Undefined
               /\ requests[r].outcome = "failure"
                    => /\ cachedResponses[id] = Undefined
                       /\ cachedErrors[id] = ErrorOf(r))
  /\ [][\A r \in RequestIds :
          (ThenHandler(r) \/ CatchHandler(r) \/ AwaitReturns(r) \/ AwaitThrows(r))
            => OthersUnchanged(requests[r].id)]_vars
  /\ [][\A id \in AllIds :
          (response(id) \/ error(id))
            => /\ OthersUnchanged(id)
               /\ (result'.kind = "return" /\ result'.val # Undefined)
                    => requests[result'.val[2]].id = id]_vars

\* two requests under different identifiers were in flight at once; the
\* one dispatched later settled first and its identifier gave its outcome,
\* while the first is still in flight
C20_Witness ==
  /\ Len(requests) = 2
  /\ requests[1].id # requests[2].id
  /\ requests[1].pc = "pending"
  /\ inFlightRequests[requests[1].id] = PromiseOf(1)
  /\ requests[2].delivered = 1
  /\ result = Res("response", requests[2].id, "return", ResponseOf(2))

(***************************************************************************)
(* C21.  The test that id is unused and the marking of id as in flight     *)
(* are one step: a dispatch under a free id is accepted, hands one request *)
(* to the transport and leaves id in flight and in use in the same step;   *)
(* while the outcome of that request has not been retrieved every further  *)
(* dispatch under id is rejected and hands nothing to the transport, so    *)
(* two requests under one id never coexist.                                *)
(***************************************************************************)
C21_CheckAndMarkAtomic ==
  /\ [][\A id \in Ids, params \in ParamLists :
          Dispatch(id, params)
            => /\ (Balanced(params) /\ Absent(id))
                    => /\ requests' = Append(requests, NewRequest(id))
                       /\ id \in DOMAIN inFlightRequests'
                       /\ inFlightRequests'[id] = PromiseOf(Len(requests'))
                       /\ IdInUse(id)'
               /\ (\E r \in RequestIds :
                      requests[r].id = id /\ requests[r].delivered = 0)
                    => result'.kind = "rejects" /\ requests' = requests]_vars
  /\ [](\A r1, r2 \in RequestIds :
          (r1 < r2 /\ requests[r1].id = requests[r2].id)
            => requests[r1].delivered >= 1)

\* of two dispatches under a free id the first was accepted and the second
\* rejected: one request reached the transport
C21_Witness ==
  \E id \in Ids :
    /\ Len(requests) = 1
    /\ requests[1].id = id
    /\ requests[1].pc = "pending"
    /\ inFlightRequests = [k \in {id} |-> PromiseOf(1)]
    /\ cachedResponses = EmptyObject
    /\ result = Res("dispatch", id, "rejects", IDInUseError)

(***************************************************************************)
(* C22.  Every entry of the success and failure tables holds exactly one   *)
(* of a success payload and a failure value: an identifier that is in one  *)
(* of the two tables is in both, and exactly one of its two stored values  *)
(* is not the empty marker undefined; the outcome of a settled request     *)
(* that nobody has retrieved has such an entry.                            *)
(***************************************************************************)
C22_ExactlyOneOutcome ==
  \A id \in AllIds :
    /\ (id \in DOMAIN cachedResponses \/ id \in DOMAIN cachedErrors)
         => /\ id \in DOMAIN cachedResponses
            /\ id \in DOMAIN cachedErrors
            /\ (cachedResponses[id] = Undefined) # (cachedErrors[id] = Undefined)
    /\ \A r \in RequestIds : Unconsumed(r, id) => id \in DOMAIN cachedResponses

\* one identifier holds a payload and the other a failure value, both
\* requests have completed and neither outcome has been retrieved
C22_Witness ==
  \E id1, id2 \in AllIds : \E r1, r2 \in RequestIds :
    /\ Completed(r1, id1, "success")
    /\ Completed(r2, id2, "failure")
    /\ cachedResponses[id1] = ResponseOf(r1)
    /\ cachedErrors[id2] = ErrorOf(r2)

(***************************************************************************)
(* C23.  A dispatch call that fails with IDInUse or UnbalancedParameters   *)
(* raises the error itself, before it returns to its caller.               *)
(* Violated: the verb methods and _request are async, so the error         *)
(* rejects the promise the call returns; the call raises nothing, and a    *)
(* caller that does not await the promise is not told.                     *)
(***************************************************************************)
C23_StructuralErrorsThrown ==
  (result.op = "dispatch"
     /\ result.val \in {IDInUseError, UnbalancedParametersError})
    => result.kind = "throw"

(***************************************************************************)
(* C24.  For every accepted dispatch the id is removed from the in-flight  *)
(* table exactly once, after the transport has settled: the marker of      *)
(* request r is in the table as long as r waits for its transport or for   *)
(* the resumption of its await and never afterwards; it is removed by r's  *)
(* own step only: on success and on failure with throwOnFailure false by   *)
(* the statement after the await, on failure with throwOnFailure true by   *)
(* the catch handler, which also throws the failure; the rethrowing await  *)
(* removes nothing.                                                        *)
(***************************************************************************)
\* the marker request r stored under its id is in the in-flight table
Marked(r) ==
  /\ requests[r].id \in DOMAIN inFlightRequests
  /\ inFlightRequests[requests[r].id] = PromiseOf(r)

C24_RemovedExactlyOnce ==
  /\ [](\A r \in RequestIds :
          Marked(r) <=> requests[r].pc \in {"pending", "settled"})
  /\ [][\A r \in RequestIds :
          /\ (Marked(r) /\ ~Marked(r)')
               => /\ requests[r].outcome # "none" \/ requests'[r].outcome # "none"
                  /\ \/ AwaitReturns(r)
                     \/ CatchHandler(r) /\ options["throwOnFailure"] = TRUE
                                       /\ requests'[r].thrown = ErrorOf(r)
          /\ ThenHandler(r) => Marked(r)'
          /\ (CatchHandler(r) /\ options["throwOnFailure"] = FALSE) => Marked(r)'
          /\ (CatchHandler(r) /\ options["throwOnFailure"] = TRUE) => ~Marked(r)'
          /\ AwaitReturns(r) => Marked(r) /\ ~Marked(r)'
          /\ AwaitThrows(r) => ~Marked(r) /\ UNCHANGED inFlightRequests]_vars

\* the first request under id failed and threw, its failure was retrieved
\* and a second request under id is in flight: the rethrowing await of the
\* first has left the marker of the second in place
C24_Witness ==
  /\ Len(requests) = 2
  /\ requests[1].id = requests[2].id
  /\ requests[1].pc = "rejected"
  /\ requests[2].pc = "pending"
  /\ Marked(2)

(***************************************************************************)
(* C25.  Under fair scheduling of the callbacks, whenever the transport of *)
(* an accepted request under id has settled, id eventually is out of the   *)
(* in-flight table with its outcome stored in the success and failure      *)
(* tables (at once when the catch handler throws, else when the await      *)
(* resumes); and for an id that is out of the in-flight table response(id) *)
(* and error(id) do not fail with RequestNotComplete.                      *)
(***************************************************************************)
\* the id of request r is out of the in-flight table and holds an outcome
Terminal(r) ==
  /\ r \in RequestIds
  /\ requests[r].pc \in {"resolved", "throwing"}
  /\ requests[r].id \notin DOMAIN inFlightRequests
  /\ requests[r].id \in DOMAIN cachedResponses
  /\ requests[r].id \in DOMAIN cachedErrors

C25_EventuallyTerminal ==
  /\ \A r \in 1..MaxRequests :
       (r \in RequestIds /\ requests[r].pc = "settled") ~> Terminal(r)
  /\ [][\A r \in RequestIds :
          (CatchHandler(r) /\ requests'[r].pc = "throwing") => Terminal(r)']_vars
  /\ [][\A id \in Ids :
          (id \notin DOMAIN inFlightRequests /\ (response(id) \/ error(id)))
            => result'.val # RequestNotCompleteError]_vars

\* a request whose transport succeeded has left the in-flight table and
\* response(id) has returned its payload
C25_Witness ==
  \E r \in RequestIds :
    /\ requests[r].pc = "resolved"
    /\ requests[r].outcome = "success"
    /\ requests[r].id \notin DOMAIN inFlightRequests
    /\ result = Res("response", requests[r].id, "return", ResponseOf(r))

(***************************************************************************)
(* C26.  No cancellation: a request that waits for its transport has its   *)
(* marker in the in-flight table, and every step other than the settlement *)
(* of its own transport (response, error, setOptions, createUniqueID,      *)
(* dispatches, settlements and resumptions of other requests, rejected     *)
(* dispatches under its id) leaves it waiting with its marker in place.    *)
(***************************************************************************)
C26_NoCancellation ==
  [][\A r \in RequestIds :
       requests[r].pc = "pending"
         => /\ Marked(r)
            /\ \/ ThenHandler(r)
               \/ CatchHandler(r)
               \/ requests'[r].pc = "pending" /\ Marked(r)']_vars

\* the first request still waits in flight after an identifier was
\* generated, throwOnFailure was switched off, and a request under the
\* other id failed, completed and had its failure retrieved
C26_Witness ==
  /\ Len(requests) = 2
  /\ requests[1].pc = "pending"
  /\ Marked(1)
  /\ requests[2].id # requests[1].id
  /\ requests[2].pc = "resolved"
  /\ requests[2].delivered = 1
  /\ idSerialNumber >= 1
  /\ options["throwOnFailure"] = FALSE
  /\ result = Res("dispatch", requests[1].id, "rejects", IDInUseError)

(***************************************************************************)
(* C27.  Whether a transport failure is propagated to the caller of the    *)
(* dispatch is decided by the value throwOnFailure has when the transport  *)
(* settles: the catch handler throws the failure if and only if the option *)
(* is true in the step in which it runs.  The callers of                   *)
(* SpecDispatchWhenTrue dispatch every request while the option is true,   *)
(* so a failure that is not thrown shows that a setOptions call made while *)
(* the request was in flight governs.                                      *)
(***************************************************************************)
C27_OptionReadAtSettlement ==
  [][\A r \in RequestIds :
       CatchHandler(r)
         => /\ options["throwOnFailure"] = TRUE
                 => /\ requests'[r].pc = "throwing"
                    /\ requests'[r].thrown = ErrorOf(r)
            /\ options["throwOnFailure"] = FALSE
                 => /\ requests'[r].pc = "settled"
                    /\ requests'[r].thrown = Undefined]_vars

\* a request dispatched while throwOnFailure was true failed after the
\* option was switched off in flight: the dispatch completed normally
C27_Witness ==
  \E r \in RequestIds :
    /\ requests[r].outcome = "failure"
    /\ requests[r].thrown = Undefined
    /\ requests[r].pc = "resolved"
    /\ options["throwOnFailure"] = FALSE

(***************************************************************************)
(* C28.  In every reachable state the success table and the failure table  *)
(* hold the same set of identifiers.  The step in which a transport        *)
(* settles creates the identifier's entry in both tables, a call of        *)
(* response or error that returns an outcome removes it from both, and no  *)
(* other step changes the identifiers of either table.                     *)
(***************************************************************************)
C28_TablesHoldSameIds ==
  /\ [](DOMAIN cachedResponses = DOMAIN cachedErrors)
  /\ [][/\ \A r \in RequestIds :
             (ThenHandler(r) \/ CatchHandler(r))
               => /\ requests[r].id \in DOMAIN cachedResponses'
                  /\ requests[r].id \in DOMAIN cachedErrors'
        /\ \A id \in Ids :
             ((response(id) \/ error(id)) /\ JustConsumed(id)')
               => /\ id \in DOMAIN cachedResponses /\ id \in DOMAIN cachedErrors
                  /\ id \notin DOMAIN cachedResponses'
                  /\ id \notin DOMAIN cachedErrors'
        /\ (DOMAIN cachedResponses' # DOMAIN cachedResponses
              \/ DOMAIN cachedErrors' # DOMAIN cachedErrors)
             => \/ \E r \in RequestIds : ThenHandler(r) \/ CatchHandler(r)
                \/ \E id \in Ids :
                     (response(id) \/ error(id)) /\ JustConsumed(id)']_vars

\* one request has settled with success and is recorded in both tables,
\* and the outcome of another has been retrieved and is in neither
C28_Witness ==
  \E r1, r2 \in RequestIds :
    /\ requests[r1].outcome = "success"
    /\ requests[r1].delivered = 0
    /\ requests[r1].id \in DOMAIN cachedResponses \cap DOMAIN cachedErrors
    /\ requests[r2].id # requests[r1].id
    /\ requests[r2].delivered = 1
    /\ requests[r2].id \notin DOMAIN cachedResponses \cup DOMAIN cachedErrors

(***************************************************************************)
(* C29.  No leak.  When the dispatch under id is over and its outcome,     *)
(* success or failure, is stored, and the caller calls response(id) and    *)
(* error(id) one after the other in either order, the second call leaves   *)
(* id in none of the tables, the outcome returned exactly once.  Whenever  *)
(* the outcome of the last request under id has been returned, id is in    *)
(* none of the tables and a dispatch under id with a balanced parameter    *)
(* list is accepted as a new request; and every outcome that response(id)  *)
(* or error(id) returns is the outcome of the last request dispatched      *)
(* under id, never that of an earlier one.                                 *)
(***************************************************************************)
\* r is the last request dispatched under id
IsLatest(r, id) ==
  /\ requests[r].id = id
  /\ \A q \in RequestIds : requests[q].id = id => q <= r

\* the last call was op(id) and it returned, a payload, a failure or the
\* empty result
Returned(op, id) ==
  result.op = op /\ result.id = id /\ result.kind = "return"

C29_NoLeak ==
  /\ [][\A id \in Ids : \A r \in RequestIds :
          /\ (IsLatest(r, id) /\ Returned("response", id) /\ error(id))
               => Absent(id)' /\ requests'[r].delivered = 1
          /\ (IsLatest(r, id) /\ Returned("error", id) /\ response(id))
               => Absent(id)' /\ requests'[r].delivered = 1
          /\ (IsLatest(r, id) /\ JustConsumed(id)' /\ (response(id) \/ error(id)))
               => /\ result'.val[2] = r
                  /\ requests[r].delivered = 0]_vars
  /\ [](\A id \in Ids : \A r \in RequestIds :
          (IsLatest(r, id) /\ requests[r].delivered >= 1) => Absent(id))
  /\ [][\A id \in Ids : \A params \in ParamLists :
          (Balanced(params) /\ NoRecord(id) /\ Dispatch(id, params))
            => /\ result'.kind = "promise"
               /\ Len(requests') = Len(requests) + 1
               /\ \A r \in RequestIds : requests'[r] = requests[r]
               /\ requests'[Len(requests')].id = id
               /\ requests'[Len(requests')].pc = "pending"]_vars

\* a request that succeeded was retrieved with both calls, its identifier
\* was dispatched again, the new request failed, and error(id) has returned
\* the failure of the new request
C29_Witness ==
  \E id \in Ids :
    /\ Len(requests) = 2
    /\ requests[1].id = id /\ requests[2].id = id
    /\ requests[1].outcome = "success" /\ requests[1].delivered = 1
    /\ requests[2].outcome = "failure" /\ requests[2].delivered = 1
    /\ result = Res("error", id, "return", ErrorOf(2))
    /\ Absent(id)

(***************************************************************************)
(* C30.  A dispatch rejected with IDInUse changes nothing.  The transport  *)
(* is not invoked: no request is created and the call carries no request   *)
(* configuration.  The three tables, and with them the marker or the       *)
(* cached outcome of id, the options and the serial counter are as before  *)
(* the call.  The request that holds id goes on as if the call had not     *)
(* been made: while it waits its transport can still settle, with success  *)
(* or with failure, and stores its own outcome, and once its dispatch is   *)
(* over the matching accessor returns that outcome.                        *)
(***************************************************************************)
\* the last call was a dispatch under id rejected with IDInUse
RejectedInUse(id) == result = Res("dispatch", id, "rejects", IDInUseError)

C30_RejectedDispatchChangesNothing ==
  /\ [][result'.val = IDInUseError
          => \A id \in Ids : \A params \in ParamLists :
               Dispatch(id, params)
                 => /\ RejectedInUse(id)'
                    /\ result'.config = NoConfig
                    /\ UNCHANGED <<requests, tables, optionVars,
                                   generatorVars>>]_vars
  /\ [](\A id \in Ids :
          RejectedInUse(id)
            => \A r \in RequestIds :
                 Pending(r, id)
                   => /\ Marked(r)
                      /\ ENABLED ThenHandler(r)
                      /\ ENABLED CatchHandler(r))
  /\ [][\A id \in Ids :
          RejectedInUse(id)
            => \A r \in RequestIds :
                 /\ (Pending(r, id) /\ ThenHandler(r))
                      => /\ cachedResponses'[id] = ResponseOf(r)
                         /\ cachedErrors'[id] = Undefined
                 /\ (Pending(r, id) /\ CatchHandler(r))
                      => /\ cachedResponses'[id] = Undefined
                         /\ cachedErrors'[id] = ErrorOf(r)
                 /\ (Entry(r, id) /\ requests[r].outcome = "success"
                       /\ response(id))
                      => result' = Res("response", id, "return", ResponseOf(r))
                 /\ (Entry(r, id) /\ requests[r].outcome = "failure"
                       /\ error(id))
                      => result' = Res("error", id, "return", ErrorOf(r))]_vars

\* with the serial counter advanced and the options changed, a dispatch
\* under the id of a waiting request has been rejected with IDInUse
C30_Witness ==
  \E id \in Ids : \E r \in RequestIds :
    /\ RejectedInUse(id)
    /\ Pending(r, id)
    /\ Marked(r)
    /\ idSerialNumber > 0
    /\ options["throwOnFailure"] = FALSE

(***************************************************************************)
(* C31.  Whether an identifier is treated as in use depends only on the    *)
(* requests dispatched under it: for every identifier under which no       *)
(* request was ever dispatched, the names of inherited properties          *)
(* included, a dispatch is not rejected with IDInUse, and response(id) and *)
(* error(id) fail with InvalidRequest, not with RequestNotComplete.        *)
(* The property fails for the names every object inherits from             *)
(* Object.prototype: the tables are object literals and the tests use the  *)
(* `in` operator, which sees inherited properties.                         *)
(***************************************************************************)
\* no dispatch under id was ever accepted
NeverDispatched(id) == \A r \in RequestIds : requests[r].id # id

C31_InUseOnlyIfDispatched ==
  [][\A id \in AllIds :
       NeverDispatched(id)
         => /\ \A params \in ParamLists :
                 Dispatch(id, params) => result'.val # IDInUseError
            /\ response(id)
                 => result' = Res("response", id, "throw", InvalidRequestError)
            /\ error(id)
                 => result' = Res("error", id, "throw", InvalidRequestError)]_vars

====
